---- MODULE Spec2Model ----
(***************************************************************************)
(* Model of the report pipeline of bot.py: the module-level report_video,  *)
(* YouTubeReporter.report_video and the stage methods it calls.  The       *)
(* browser, the network probe and the file system are the environment:     *)
(* every call into them is a nondeterministic choice over the outcomes     *)
(* Selenium / requests can produce.                                        *)
(***************************************************************************)
EXTENDS Integers, Sequences, FiniteSets, TLC

(* ------------------------------ bounds -------------------------------- *)
\* most dismiss buttons the popup lookup returns
MaxPopups == 1
\* most cookies in a cookie file
MaxCookies == 2
\* most places in one run where the environment departs from the plain run
\* (a call raises, an element is missing, hidden, disabled or stale, a save
\* fails)
MaxDeviations == 1
\* at most this many cookies in the file given to login_using_cookie_file
MaxJar == 3
\* the distances given to human_like_scroll lie in -MaxDistance..MaxDistance
MaxDistance == 2
\* invocations of the module-level report_video in one process
MaxRuns == 2
\* most captures the invocations attempt, all together
MaxShots == 2

(* --------------------------- text as characters ------------------------ *)
\* Strings the code inspects character by character are character tuples.
youtube_com == <<"y","o","u","t","u","b","e",".","c","o","m">>
youtu_be == <<"y","o","u","t","u",".","b","e">>
watch_path == <<"/","w","a","t","c","h">>

\* Python's `needle in hay` on str
IsSubstring(needle, hay) ==
    \E i \in 0..(Len(hay) - Len(needle)) :
        \A j \in 1..Len(needle) : hay[i + j] = needle[j]

RECURSIVE LStrip(_)
LStrip(s) == IF s /= <<>> /\ Head(s) = "/" THEN LStrip(Tail(s)) ELSE s

RECURSIVE RStrip(_)
RStrip(s) ==
    IF s /= <<>> /\ s[Len(s)] = "/" THEN RStrip(SubSeq(s, 1, Len(s) - 1)) ELSE s

\* a path taken as it is, slashes included
Strip_Unstripped(s) == s

\* str.strip('/')
Strip(s) == RStrip(LStrip(s))

\* parse_qs(query): blank values are dropped; the values of key "v", in order
RECURSIVE ParseQsV(_)
ParseQsV(q) ==
    IF q = <<>> THEN <<>>
    ELSE IF Head(q).k = "v" /\ Head(q).v /= <<>>
         THEN <<Head(q).v>> \o ParseQsV(Tail(q))
         ELSE ParseQsV(Tail(q))

(* ------------------------------ constants ------------------------------ *)
REPORT_TYPES ==
    [sexual |-> "Sexual content",
     violent |-> "Violent or repulsive content",
     hateful |-> "Hateful or abusive content",
     harmful |-> "Harmful or dangerous acts",
     harassment |-> "Harassment or bullying",
     spam |-> "Spam or misleading",
     legal |-> "Legal issue",
     child |-> "Child abuse",
     terrorism |-> "Promotes terrorism",
     misinformation |-> "Misinformation"]

not_sub_option == {"child", "terrorism", "misinformation"}

None == [seq |-> 0, tag |-> "None"]

(* ------------------------------- inputs -------------------------------- *)
Url(probe, netloc, path, query) ==
    [probe |-> probe, netloc |-> netloc, path |-> path, query |-> query]

www == <<"w","w","w",".">>
abc == <<"a","b","c">>
xyz == <<"x","y","z">>

\* https://www.youtube.com/watch?v=abc
UrlCanonical == Url("ok", www \o youtube_com, watch_path, <<[k |-> "v", v |-> abc]>>)
\* https://youtu.be/abc/
UrlShort == Url("ok", youtu_be, <<"/">> \o abc \o <<"/">>, <<>>)
\* https://notyoutube.com/watch?t=&v=abc
UrlLookalike ==
    Url("ok", <<"n","o","t">> \o youtube_com, watch_path,
        <<[k |-> "t", v |-> <<>>], [k |-> "v", v |-> abc]>>)
\* https://notplatform.com/x
UrlOther == Url("ok", <<"n","o","t","p","l","a","t","f","o","r","m",".","c","o","m">>,
                <<"/","x">>, <<>>)
\* https://www.youtube.com/watch?v=
UrlNoId == Url("ok", www \o youtube_com, watch_path, <<[k |-> "v", v |-> <<>>]>>)
\* https://www.youtube.com/shorts?v=abc
UrlShorts == Url("ok", www \o youtube_com, <<"/","s","h","o","r","t","s">>,
                 <<[k |-> "v", v |-> abc]>>)
\* https://m.youtube.com/watch?v=&v=abc&v=xyz
UrlTwoIds ==
    Url("ok", <<"m", ".">> \o youtube_com, watch_path,
        <<[k |-> "v", v |-> <<>>], [k |-> "v", v |-> abc], [k |-> "v", v |-> xyz]>>)
\* https://youtu.be/
UrlShortEmpty == Url("ok", youtu_be, <<"/">>, <<>>)
\* the canonical URL when the HEAD request gets a 4xx/5xx answer
UrlHttpError == [UrlCanonical EXCEPT !.probe = "http_error"]
\* the short link when the HEAD request times out or cannot connect
UrlUnreachable == [UrlShort EXCEPT !.probe = "conn_error"]

Urls == {UrlCanonical, UrlShort, UrlLookalike, UrlOther, UrlNoId, UrlShorts,
         UrlTwoIds, UrlShortEmpty, UrlHttpError, UrlUnreachable}

ReportTypeInputs == DOMAIN REPORT_TYPES \cup {"bogus"}

DetailsInputs == {"", "details"}

\* how many of the URL, the category and the details of a request differ
\* from the plain request (the canonical URL, spam, no details)
Departures(r) ==
    (IF r[1] = UrlCanonical THEN 0 ELSE 1) + (IF r[2] = "spam" THEN 0 ELSE 1)
    + (IF r[3] = "" THEN 0 ELSE 1)

\* the requests made through the module function: each differs from the
\* plain request in one of the three
Requests ==
    {r \in Urls \X ReportTypeInputs \X DetailsInputs : Departures(r) <= 1}

\* requests made through the class directly rather than the module function
DirectUrls == {UrlCanonical, UrlOther}
DirectReportTypes == {"spam", "child"}
\* a cookie file is given with the plain request only
DirectRequests ==
    {r \in DirectUrls \X DirectReportTypes \X DetailsInputs
            \X {"None", "missing", "present"} :
        r[4] = "None" \/ Departures(r) = 0}

(* ----------------------- validate_youtube_url -------------------------- *)
Invalid == [valid |-> FALSE, id |-> <<>>]
VideoId(id) == [valid |-> TRUE, id |-> id]

validate_youtube_url(u) ==
    IF u.probe /= "ok" THEN Invalid
    ELSE IF IsSubstring(youtube_com, u.netloc)
         THEN IF u.path = watch_path /\ ParseQsV(u.query) /= <<>>
              THEN VideoId(ParseQsV(u.query)[1])
              ELSE Invalid
         ELSE IF IsSubstring(youtu_be, u.netloc)
              THEN IF Strip(u.path) /= <<>> THEN VideoId(Strip(u.path)) ELSE Invalid
              ELSE Invalid

(* --------------------------- the environment --------------------------- *)
\* One browser call the run issued: op on the element or target `tag`, whose
\* condition on the page was `el`; ok = the call returned without raising.
Ev(op, tag, el, ok) == [op |-> op, tag |-> tag, el |-> el, ok |-> ok]

\* Condition of a page element when the flow reaches it:
\*   absent       no element matches the query
\*   hidden       matches, not displayed
\*   disabled     matches, displayed, not enabled
\*   ok           matches, displayed, enabled, click goes through
\*   intercepted  as ok, but the click raises ElementClickInterceptedException
\*   stale        matched, but the reference is stale at the first interaction
ElemBehaviour == {"absent", "hidden", "disabled", "ok", "intercepted", "stale"}

Found(e) == e /= "absent"
Displayed(e) == e \notin {"absent", "hidden"}
HoverOk(e) == e \notin {"hidden", "stale"}
ClickOk(e) == e \in {"disabled", "ok"}
TypeOk(e) == e \in {"ok", "intercepted"}

\* a hover and click whose exceptions are not looked at
HoverClick_AlwaysOk(name, e) ==
    [ok |-> TRUE, ev |-> <<Ev("hover", name, e, HoverOk(e)), Ev("click", name, e, ClickOk(e))>>]

\* ActionChains(driver).move_to_element(x).perform(); delay; x.click()
HoverClick(name, e) ==
    IF ~HoverOk(e)
    THEN [ok |-> FALSE, ev |-> <<Ev("hover", name, e, FALSE)>>]
    ELSE [ok |-> ClickOk(e),
          ev |-> <<Ev("hover", name, e, TRUE), Ev("click", name, e, ClickOk(e))>>]

\* What a stage method did: its return ("True", "False", or "raise" when an
\* exception leaves the method), the browser calls it issued, and the tag of
\* the screenshot it asked for on the way out ("" when it asked for none).
StageResult(ret, ev, shot) == [ret |-> ret, ev |-> ev, shot |-> shot]

(* --------------------------- take_screenshot --------------------------- *)
ScreenshotPath(seq, tag) == [seq |-> seq, tag |-> tag]

\* a capture that records the path before the save and keeps it when the
\* save raises
take_screenshot_EagerLatest(d, drv, tag, saveOk) ==
    IF drv = "none" THEN [d EXCEPT !.ev = <<>>]
    ELSE [taken |-> d.taken + 1,
          latest |-> ScreenshotPath(d.taken + 1, tag),
          files |-> IF saveOk THEN Append(d.files, ScreenshotPath(d.taken + 1, tag))
                    ELSE d.files,
          ev |-> <<Ev("save_screenshot", tag, "", saveOk)>>]

\* a capture without the guard of lines 171-172
take_screenshot_Unguarded(d, drv, tag, saveOk) ==
    [taken |-> d.taken + 1,
     latest |-> IF saveOk THEN ScreenshotPath(d.taken + 1, tag) ELSE d.latest,
     files |-> IF saveOk THEN Append(d.files, ScreenshotPath(d.taken + 1, tag))
               ELSE d.files,
     ev |-> <<Ev("save_screenshot", tag, "", saveOk)>>]

\* a capture whose counter moves only when the file was written
take_screenshot_CountsSaved(d, drv, tag, saveOk) ==
    IF drv = "none" THEN [d EXCEPT !.ev = <<>>]
    ELSE [taken |-> IF saveOk THEN d.taken + 1 ELSE d.taken,
          latest |-> IF saveOk THEN ScreenshotPath(d.taken + 1, tag) ELSE d.latest,
          files |-> IF saveOk THEN Append(d.files, ScreenshotPath(d.taken + 1, tag))
                    ELSE d.files,
          ev |-> <<Ev("save_screenshot", tag, "", saveOk)>>]

\* d = [taken, latest, files]; drv = self.driver; saveOk = save_screenshot
\* returned.  The counter moves before the save, the evidence after it.
take_screenshot(d, drv, tag, saveOk) ==
    IF drv = "none" THEN [d EXCEPT !.ev = <<>>]
    ELSE [taken |-> d.taken + 1,
          latest |-> IF saveOk THEN ScreenshotPath(d.taken + 1, tag) ELSE d.latest,
          files |-> IF saveOk THEN Append(d.files, ScreenshotPath(d.taken + 1, tag))
                    ELSE d.files,
          ev |-> <<Ev("save_screenshot", tag, "", saveOk)>>]

(* ------------------------- navigate_to_video --------------------------- *)
\* get, wait \in {"ok", "timeout", "wde", "other"}: the call returned, raised
\* TimeoutException, another WebDriverException, or a non-Selenium exception.
CallOutcome == {"ok", "timeout", "wde", "other"}

\* a handler that tags every navigation failure navigation_error
NavigateFailure_OneTag(exc, ev) ==
    IF exc \in {"timeout", "wde"} THEN StageResult("False", ev, "navigation_error")
    ELSE StageResult("raise", ev, "")

NavigateFailure(exc, ev) ==
    IF exc = "timeout" THEN StageResult("False", ev, "video_load_timeout")
    ELSE IF exc = "wde" THEN StageResult("False", ev, "navigation_error")
    ELSE StageResult("raise", ev, "")

navigate_to_video(get, wait) ==
    LET e1 == <<Ev("get", "video", get, get = "ok")>>
        e2 == e1 \o <<Ev("scroll", "down", "", TRUE)>>
        e3 == e2 \o <<Ev("wait_present", "video", wait, wait = "ok")>>
    IN  IF get /= "ok" THEN NavigateFailure(get, e1)
        ELSE IF wait /= "ok" THEN NavigateFailure(wait, e3)
        ELSE StageResult("True", e3, "")

(* ------------------------- open_report_dialog -------------------------- *)
\* A dismiss button of an interstitial popup: not displayed, is_displayed
\* raises, displayed and clicked, or displayed and the click raises.
ButtonBehaviour == {"hidden", "check_raises", "ok", "click_raises"}

RECURSIVE SeqsUpTo(_, _)
SeqsUpTo(S, n) ==
    IF n = 0 THEN {<<>>}
    ELSE SeqsUpTo(S, n - 1) \cup
         {Append(q, x) : q \in {r \in SeqsUpTo(S, n - 1) : Len(r) = n - 1}, x \in S}

\* lookup = find_elements returned; buttons = what it returned
PopupEnvs ==
    {[lookup |-> FALSE, buttons |-> <<>>]} \cup
    {[lookup |-> TRUE, buttons |-> b] : b \in SeqsUpTo(ButtonBehaviour, MaxPopups)}

DismissOne(b) ==
    IF b = "check_raises" THEN <<Ev("is_displayed", "dismiss", b, FALSE)>>
    ELSE IF b = "hidden" THEN <<Ev("is_displayed", "dismiss", b, TRUE)>>
    ELSE <<Ev("is_displayed", "dismiss", b, TRUE), Ev("click", "dismiss", b, b = "ok")>>

RECURSIVE DismissAll(_)
DismissAll(bs) == IF bs = <<>> THEN <<>> ELSE DismissOne(Head(bs)) \o DismissAll(Tail(bs))

\* lines 295-306: every failure inside is swallowed
DismissPopups(popup) ==
    <<Ev("find_elements", "dismiss", "", popup.lookup)>> \o
    (IF popup.lookup THEN DismissAll(popup.buttons) ELSE <<>>)

\* a dismissal whose exceptions reach the handler of the stage
DismissalAborts_OnError(popup) ==
    \/ ~popup.lookup
    \/ \E i \in 1..Len(popup.buttons) : popup.buttons[i] \in {"check_raises", "click_raises"}

\* lines 303-306: the bare excepts; no failure leaves the dismissal block
DismissalAborts(popup) == FALSE

\* dialog \in DialogBehaviour: the "Report video" marker
DialogBehaviour == {"visible", "timeout", "not_displayed"}

open_report_dialog(popup, more, report, dialog) ==
    LET e0 == DismissPopups(popup) \o <<Ev("scroll", "down", "", TRUE)>>
        e1 == e0 \o <<Ev("wait_visible", "more_actions", more, Displayed(more))>>
        e2 == e1 \o <<Ev("find", "more_actions", more, Found(more))>>
        c2 == HoverClick("more_actions", more)
        e3 == e2 \o c2.ev
        e4 == e3 \o <<Ev("find", "report_item", report, Found(report))>>
        c4 == HoverClick("report_item", report)
        e5 == e4 \o c4.ev
        e6 == e5 \o <<Ev("wait_visible", "report_dialog", dialog, dialog /= "timeout")>>
    IN  IF DismissalAborts(popup)
        THEN StageResult("False", DismissPopups(popup), "unexpected_error")
        ELSE IF ~Displayed(more) THEN StageResult("False", e1, "unexpected_error")
        ELSE IF ~c2.ok THEN StageResult("False", e3, "more_actions_click_error")
        ELSE IF ~Found(report) THEN StageResult("False", e4, "unexpected_error")
        ELSE IF ~c4.ok THEN StageResult("False", e5, "report_option_click_error")
        ELSE IF dialog /= "visible"
             THEN StageResult("False", e6, "report_dialog_not_visible")
        ELSE StageResult("True", e6, "")

(* ------------------------ select_report_reason ------------------------- *)
\* a flow that opens the sub-reason dropdown for every category
NeedsSubOption_Always(report_type) == TRUE

\* line 457
NeedsSubOption(report_type) == report_type \notin not_sub_option

\* a sub-reason step whose failures do not stop the stage
SubOptionStep_Lenient(dropdown, sub) ==
    LET e1 == <<Ev("find", "dropdown", dropdown, Found(dropdown))>>
        e2 == e1 \o <<Ev("click", "dropdown", dropdown, ClickOk(dropdown))>>
        e3 == e2 \o <<Ev("find", "sub_option", sub, Found(sub))>>
        e4 == e3 \o HoverClick("sub_option", sub).ev
    IN  IF ~Found(dropdown) THEN StageResult("True", e1, "")
        ELSE IF ~ClickOk(dropdown) THEN StageResult("True", e2, "")
        ELSE IF ~Found(sub) THEN StageResult("True", e3, "")
        ELSE StageResult("True", e4, "")

\* lines 459-484: the dropdown and its second entry
SubOptionStep(dropdown, sub) ==
    LET e1 == <<Ev("find", "dropdown", dropdown, Found(dropdown))>>
        e2 == e1 \o <<Ev("click", "dropdown", dropdown, ClickOk(dropdown))>>
        e3 == e2 \o <<Ev("find", "sub_option", sub, Found(sub))>>
        c3 == HoverClick("sub_option", sub)
        e4 == e3 \o c3.ev
    IN  IF ~Found(dropdown) THEN StageResult("False", e1, "dropdown_click_error")
        ELSE IF ~ClickOk(dropdown) THEN StageResult("False", e2, "dropdown_click_error")
        ELSE IF ~Found(sub) THEN StageResult("False", e3, "dropdown_click_error")
        ELSE IF ~c3.ok THEN StageResult("False", e4, "sub_option_click_error")
        ELSE StageResult("True", e4, "")

\* line 486: the continue button of the reason form
ContinueStep(ev, cont) ==
    LET e1 == ev \o <<Ev("find", "continue", cont, Found(cont))>>
        e2 == e1 \o <<Ev("click", "continue", cont, ClickOk(cont))>>
    IN  IF ~Found(cont) THEN StageResult("False", e1, "reason_unexpected_error")
        ELSE IF ~ClickOk(cont) THEN StageResult("False", e2, "reason_unexpected_error")
        ELSE StageResult("True", e2, "")

select_report_reason(report_type, reason, dropdown, sub, cont) ==
    IF report_type \notin DOMAIN REPORT_TYPES THEN StageResult("False", <<>>, "")
    ELSE
    LET e1 == <<Ev("find", "reason", reason, Found(reason))>>
        c1 == HoverClick("reason", reason)
        e2 == e1 \o c1.ev
        s3 == SubOptionStep(dropdown, sub)
    IN  IF ~Found(reason) THEN StageResult("False", e1, "reason_unexpected_error")
        ELSE IF ~c1.ok THEN StageResult("False", e2, "reason_option_click_error")
        ELSE IF NeedsSubOption(report_type)
             THEN IF s3.ret = "True" THEN ContinueStep(e2 \o s3.ev, cont)
                  ELSE StageResult("False", e2 \o s3.ev, s3.shot)
             ELSE ContinueStep(e2, cont)

(* ---------------------------- submit_report ---------------------------- *)
\* a details step for which a missing textarea is an error like any other
DetailsStep_Strict(details, textarea) ==
    LET e1 == <<Ev("find", "textarea", textarea, Found(textarea))>>
        e2 == e1 \o <<Ev("clear", "textarea", textarea, TypeOk(textarea))>>
        e3 == e2 \o <<Ev("send_keys", details, textarea, TRUE)>>
    IN  IF details = "" THEN [ok |-> TRUE, ev |-> <<>>]
        ELSE IF ~Found(textarea) THEN [ok |-> FALSE, ev |-> e1]
        ELSE IF ~TypeOk(textarea) THEN [ok |-> FALSE, ev |-> e2]
        ELSE [ok |-> TRUE, ev |-> e3]

\* a details step that types over whatever the textarea holds
DetailsStep_NoClear(details, textarea) ==
    LET e1 == <<Ev("find", "textarea", textarea, Found(textarea))>>
        e3 == e1 \o <<Ev("send_keys", details, textarea, TypeOk(textarea))>>
    IN  IF details = "" THEN [ok |-> TRUE, ev |-> <<>>]
        ELSE IF ~Found(textarea) THEN [ok |-> TRUE, ev |-> e1]
        ELSE [ok |-> TypeOk(textarea), ev |-> e3]

\* lines 509-518; textarea "absent" is NoSuchElementException, tolerated.
\* ok = the flow goes on to the submit button.
DetailsStep(details, textarea) ==
    LET e1 == <<Ev("find", "textarea", textarea, Found(textarea))>>
        e2 == e1 \o <<Ev("clear", "textarea", textarea, TypeOk(textarea))>>
        e3 == e2 \o <<Ev("send_keys", details, textarea, TRUE)>>
    IN  IF details = "" THEN [ok |-> TRUE, ev |-> <<>>]
        ELSE IF ~Found(textarea) THEN [ok |-> TRUE, ev |-> e1]
        ELSE IF ~TypeOk(textarea) THEN [ok |-> FALSE, ev |-> e2]
        ELSE [ok |-> TRUE, ev |-> e3]

submit_report(details, textarea, submit) ==
    LET d == DetailsStep(details, textarea)
        e1 == d.ev \o <<Ev("find", "submit", submit, Found(submit))>>
        e2 == e1 \o <<Ev("click", "submit", submit, ClickOk(submit))>>
    IN  IF ~d.ok THEN StageResult("False", d.ev, "submit_unexpected_error")
        ELSE IF ~Found(submit) THEN StageResult("False", e1, "submit_button_not_found")
        ELSE IF ~ClickOk(submit) THEN StageResult("False", e2, "submit_unexpected_error")
        ELSE StageResult("True", e2, "final_after_submit_click")

(* ----------------------------- setup_driver ---------------------------- *)
\* The cookie file as the run finds it: read = open and json.load returned,
\* get = the visit of the target domain returned, cookies = for each cookie
\* of the file whether add_cookie accepts it.
CookieEnvs ==
    {[read |-> FALSE, get |-> TRUE, cookies |-> <<>>]} \cup
    {[read |-> TRUE, get |-> g, cookies |-> c] :
        g \in BOOLEAN, c \in SeqsUpTo({"ok", "bad"}, MaxCookies)}

\* a loop that gives up at the first cookie the browser refuses
RECURSIVE AddCookies_StopAtBad(_)
AddCookies_StopAtBad(cs) ==
    IF cs = <<>> THEN <<>>
    ELSE IF Head(cs) /= "ok" THEN <<Ev("add_cookie", Head(cs), "", FALSE)>>
    ELSE <<Ev("add_cookie", Head(cs), "", TRUE)>> \o AddCookies_StopAtBad(Tail(cs))

\* lines 139-143: one add_cookie per cookie, each in its own try/except
RECURSIVE AddCookies(_)
AddCookies(cs) ==
    IF cs = <<>> THEN <<>>
    ELSE <<Ev("add_cookie", Head(cs), "", Head(cs) = "ok")>> \o AddCookies(Tail(cs))

\* lines 128-147: every failure inside is logged and swallowed
LoadCookies(cookies_path, cenv) ==
    IF cookies_path /= "present" THEN <<>>
    ELSE IF ~cenv.read THEN <<Ev("json.load", "cookie_file", "", FALSE)>>
    ELSE IF ~cenv.get
         THEN <<Ev("json.load", "cookie_file", "", TRUE),
                Ev("get", "youtube_home", "", FALSE)>>
    ELSE <<Ev("json.load", "cookie_file", "", TRUE), Ev("get", "youtube_home", "", TRUE)>>
         \o AddCookies(cenv.cookies)

\* launch \in LaunchOutcome: "prep_fails" an exception before uc.Chrome is
\* called, "engine_fails" uc.Chrome raises, "wait_fails" uc.Chrome returned
\* and implicitly_wait raises, "ok".
LaunchOutcome == {"prep_fails", "engine_fails", "wait_fails", "ok"}

setup_driver(launch, cookies_path, cenv) ==
    IF launch = "prep_fails"
    THEN [ret |-> FALSE, driver |-> "none", browser |-> "none",
          ev |-> <<Ev("makedirs", "profile_dir", "", FALSE)>>]
    ELSE IF launch = "engine_fails"
    THEN [ret |-> FALSE, driver |-> "none", browser |-> "none",
          ev |-> <<Ev("uc.Chrome", "browser", "", FALSE)>>]
    ELSE IF launch = "wait_fails"
    THEN [ret |-> FALSE, driver |-> "set", browser |-> "running",
          ev |-> <<Ev("uc.Chrome", "browser", "", TRUE),
                   Ev("implicitly_wait", "implicit_wait", "", FALSE)>>]
    ELSE [ret |-> TRUE, driver |-> "set", browser |-> "running",
          ev |-> <<Ev("uc.Chrome", "browser", "", TRUE),
                   Ev("implicitly_wait", "implicit_wait", "", TRUE)>>
                 \o LoadCookies(cookies_path, cenv)]

(* ------------------------------- state --------------------------------- *)
VARIABLES
    pc,                 \* position in report_video
    entry,              \* "module": report_video(url, ...); "direct": the class
    url, report_type, additional_details, cookies_path,   \* the request
    video_id,           \* result of validate_youtube_url
    driver,             \* self.driver: "none" or "set"
    browser,            \* the browser process: "none", "running", "quit"
    screenshots_taken,  \* self.screenshots_taken
    latest_screenshot,  \* the module global
    files,              \* screenshot files written, in order
    events,             \* browser calls issued, in order
    stages,             \* stage methods called, in order, with their return
    success,            \* the local of YouTubeReporter.report_video
    captures,           \* take_screenshot calls made, in order, with outcome
    cookie_file,        \* the cookies of the file at cookies_path, as read
    result,             \* what the caller got
    \* app.py, the route submit_report
    wpc,                \* position in the route
    form,               \* request.form
    config,             \* app.config, the EMAIL_ settings
    piped,              \* what report_video gave the route
    email_sent,         \* the local email_sent: "unset", "True", "False"
    effects,            \* the outside calls of the route, in order
    records,            \* the VideoReport rows committed
    response,           \* what the route answered
    \* cookies_manager.py, login_using_cookie_file
    cpc,                \* position in login_using_cookie_file
    jar,                \* the cookies of the file, in file order
    domain_cookies,     \* the dict of that name, in insertion order
    visits,             \* driver.get and driver.add_cookie calls, in order
    \* bot.py, human_like_scroll called on its own
    spc,                \* position in human_like_scroll
    sarg,               \* its receiver and arguments
    scrolls,            \* the calls it issued, in order
    \* bot.py, several invocations of the module-level report_video
    invocations,        \* per invocation: position, reporter, what it returned
    latest_by           \* the invocation that wrote latest_screenshot, 0 = none

bot_vars == <<pc, entry, url, report_type, additional_details, cookies_path, video_id,
              driver, browser, screenshots_taken, latest_screenshot, files, events,
              stages, success, captures, cookie_file, result>>

web_vars == <<wpc, form, config, piped, email_sent, effects, records, response>>

cm_vars == <<cpc, jar, domain_cookies, visits>>

scroll_vars == <<spc, sarg, scrolls>>

run_vars == <<invocations, latest_by>>

vars == <<bot_vars, web_vars, cm_vars, scroll_vars, run_vars>>

request == <<entry, url, report_type, additional_details, cookies_path>>

NoResult == [success |-> FALSE, evidence |-> None, kind |-> "none"]

BotIdle ==
    /\ pc = "idle"
    /\ entry = "module"
    /\ url = UrlCanonical
    /\ report_type = "spam"
    /\ additional_details = ""
    /\ cookies_path = "False"
    /\ video_id = Invalid
    /\ driver = "none"
    /\ browser = "none"
    /\ screenshots_taken = 0
    /\ latest_screenshot = None
    /\ files = <<>>
    /\ events = <<>>
    /\ stages = <<>>
    /\ success = FALSE
    /\ captures = <<>>
    /\ cookie_file = <<>>
    /\ result = NoResult

NoForm == [video_url |-> "", report_category |-> "", report_details |-> ""]
NoConfig == [EMAIL_ENABLED |-> FALSE, EMAIL_USER |-> "", EMAIL_PASS |-> "",
             EMAIL_RECEIVER |-> ""]
NotPiped == [success |-> FALSE, evidence |-> "None"]

\* no request in the web layer
WebIdle ==
    /\ wpc = "idle"
    /\ form = NoForm
    /\ config = NoConfig
    /\ piped = NotPiped
    /\ email_sent = "unset"
    /\ effects = <<>>
    /\ records = <<>>
    /\ response = "none"

\* login_using_cookie_file not called
CookiesIdle ==
    /\ cpc = "idle"
    /\ jar = <<>>
    /\ domain_cookies = <<>>
    /\ visits = <<>>

Distance(given, value) == [given |-> given, value |-> value]
NoDistance == Distance(FALSE, 0)

ScrollIdle ==
    /\ spc = "idle"
    /\ sarg = [driver |-> "none", direction |-> "down", distance |-> NoDistance]
    /\ scrolls = <<>>

Runs == 1..MaxRuns

\* an invocation: where it is, its reporter's counter and the files that
\* reporter saved, whether another invocation was running at any time
\* during it, and what it returned and who had written that
NoInvocation ==
    [pc |-> "idle", taken |-> 0, saved |-> <<>>, overlapped |-> FALSE,
     result |-> NoResult, by |-> 0]

RunsIdle ==
    /\ invocations = [r \in Runs |-> NoInvocation]
    /\ latest_by = 0

Init == BotIdle /\ WebIdle /\ CookiesIdle /\ ScrollIdle /\ RunsIdle

\* The environment's departures from the plain run in a sequence of calls:
\* the targets of the calls that raised or met an element that was not "ok"
Deviations(ev) ==
    {ev[i].tag : i \in {j \in 1..Len(ev) : ~ev[j].ok \/ ev[j].el \notin {"", "ok", "visible"}}}

\* The plain request of the module entry (canonical URL, spam, no details)
\* is explored one departure deeper than the others.
Budget ==
    IF entry = "module" /\ url = UrlCanonical /\ report_type = "spam"
       /\ additional_details = ""
    THEN MaxDeviations + 1
    ELSE MaxDeviations

WithinBudget(ev) == Cardinality(Deviations(ev)) <= Budget

Diag == [taken |-> screenshots_taken, latest |-> latest_screenshot,
         files |-> files, ev |-> <<>>]

\* one call of take_screenshot as the caller sees it: "noop" (no driver),
\* "saved", or "failed" (save_screenshot raised, swallowed at line 183)
CaptureCall(tag, drv, saveOk) ==
    [tag |-> tag,
     outcome |-> IF drv = "none" THEN "noop" ELSE IF saveOk THEN "saved" ELSE "failed"]

\* self.take_screenshot(tag) as part of a step that already issued calls ev;
\* tag "" = the step takes no screenshot
Capture(ev, tag, saveOk) ==
    LET d == IF tag = "" THEN Diag ELSE take_screenshot(Diag, driver, tag, saveOk)
    IN  /\ screenshots_taken' = d.taken
        /\ latest_screenshot' = d.latest
        /\ files' = d.files
        /\ events' = events \o ev \o d.ev
        /\ WithinBudget(events')
        /\ captures' = IF tag = "" THEN captures
                       ELSE Append(captures, CaptureCall(tag, driver, saveOk))

\* The environment is consulted only where the flow gets to: the choices
\* for an element the flow reaches only if `reached`
IfReached(reached, S, plain) == IF reached THEN S ELSE {plain}

\* outcomes of save_screenshot for a capture tagged tag
SaveOutcomes(tag) == IfReached(tag /= "" /\ driver /= "none", BOOLEAN, TRUE)

(* ---------------------------- report_video ----------------------------- *)
\* lines 566-575 and the try/except around them: where control goes after a
\* stage method returned ret
\* a flow that goes on to the next stage after a stage returned False
AfterStage_IgnoresFalse(ret, next) == IF ret = "raise" THEN "except" ELSE next

\* a flow in which a stage that returned False falls through to the
\* final-state capture
AfterStage_ViaFinal(ret, next) ==
    IF ret = "True" THEN next ELSE IF ret = "False" THEN "final" ELSE "except"

AfterStage(ret, next) ==
    IF ret = "True" THEN next ELSE IF ret = "False" THEN "cleanup" ELSE "except"

\* a flow that does not look at the result of the validation
AfterValidate_Unchecked(vid) == "setup"

\* lines 556-558
AfterValidate(vid) == IF vid.valid THEN "setup" ELSE "return"

\* a flow that does not look at the result of setup_driver
AfterSetup_Unchecked(ok) == "navigate"

\* lines 561-562
AfterSetup(ok) == IF ok THEN "navigate" ELSE "return"

\* a flow with the two final tags exchanged
FinalTag_Swapped(ok) == IF ok THEN "final_state_failure" ELSE "final_state_success"

\* lines 581-590
FinalTag(ok) == IF ok THEN "final_state_success" ELSE "final_state_failure"

\* a cleanup that never closes the browser
QuitsDriver_Never(drv) == FALSE

\* line 600
QuitsDriver(drv) == drv /= "none"

\* a finally block that runs again after quit raised
AfterCleanup_Retry(quitOk) == IF quitOk THEN "return" ELSE "cleanup"

\* line 604 is reached when quit returned; an exception of quit leaves
\* report_video from inside the finally block
AfterCleanup(quitOk) == IF quitOk THEN "return" ELSE "raised"

\* module-level report_video, lines 606-622
ReportVideo ==
    /\ pc = "idle"
    /\ \E r \in Requests :
        /\ url' = r[1] /\ report_type' = r[2] /\ additional_details' = r[3]
    /\ entry' = "module"
    /\ cookies_path' = "False"
    /\ latest_screenshot' = None
    /\ pc' = "validate"
    /\ UNCHANGED <<video_id, driver, browser, screenshots_taken, files, events,
                   stages, success, captures, result,
                   cookie_file>>
    /\ UNCHANGED <<web_vars, cm_vars, scroll_vars, run_vars>>

\* YouTubeReporter(...).report_video(url, type) called by other code
Construct ==
    /\ pc = "idle"
    /\ \E r \in DirectRequests :
        /\ url' = r[1] /\ report_type' = r[2] /\ additional_details' = r[3]
        /\ cookies_path' = r[4]
    /\ entry' = "direct"
    /\ pc' = "validate"
    /\ UNCHANGED <<video_id, driver, browser, screenshots_taken, latest_screenshot,
                   files, events, stages, success, captures, result,
                   cookie_file>>
    /\ UNCHANGED <<web_vars, cm_vars, scroll_vars, run_vars>>

\* YouTubeReporter(...).take_screenshot(tag) called by other code on a
\* reporter that never set up a browser (lines 169-172)
DirectScreenshot ==
    /\ pc = "idle"
    /\ entry' = "direct"
    /\ Capture(<<>>, "manual", TRUE)
    /\ pc' = "captured"
    /\ UNCHANGED <<url, report_type, additional_details, cookies_path, video_id,
                   driver, browser, stages, success, result,
                   cookie_file>>
    /\ UNCHANGED <<web_vars, cm_vars, scroll_vars, run_vars>>

Stage(name, ret) == [name |-> name, ret |-> ret]

Validate ==
    /\ pc = "validate"
    /\ video_id' = validate_youtube_url(url)
    /\ events' = Append(events, Ev("head", "video", "", url.probe = "ok"))
    /\ WithinBudget(events')
    /\ stages' = Append(stages,
                        Stage("validate", IF video_id'.valid THEN "True" ELSE "False"))
    /\ success' = FALSE
    /\ pc' = AfterValidate(video_id')
    /\ UNCHANGED <<request, driver, browser, screenshots_taken, latest_screenshot,
                   files, captures, result,
                   cookie_file>>
    /\ UNCHANGED <<web_vars, cm_vars, scroll_vars, run_vars>>

Setup ==
    /\ pc = "setup"
    /\ \E launch \in LaunchOutcome :
       \E cenv \in IfReached(launch = "ok" /\ cookies_path = "present", CookieEnvs,
                              [read |-> TRUE, get |-> TRUE, cookies |-> <<>>]) :
        LET r == setup_driver(launch, cookies_path, cenv)
        IN  /\ driver' = r.driver
            /\ browser' = r.browser
            /\ events' = events \o r.ev
            /\ WithinBudget(events')
            /\ stages' = Append(stages, Stage("setup", IF r.ret THEN "True" ELSE "False"))
            /\ pc' = AfterSetup(r.ret)
            /\ cookie_file' = cenv.cookies
    /\ UNCHANGED <<request, video_id, screenshots_taken, latest_screenshot, files,
                   success, captures, result>>
    /\ UNCHANGED <<web_vars, cm_vars, scroll_vars, run_vars>>

\* a stage method ran with result r
RunStage(name, r, next) ==
    /\ \E saveOk \in SaveOutcomes(r.shot) : Capture(r.ev, r.shot, saveOk)
    /\ stages' = Append(stages, Stage(name, r.ret))
    /\ pc' = AfterStage(r.ret, next)
    /\ UNCHANGED <<request, video_id, driver, browser, result,
                   cookie_file>>
    /\ UNCHANGED <<web_vars, cm_vars, scroll_vars, run_vars>>

\* self.driver is None: the first browser call raises AttributeError
NoDriver == StageResult("raise", <<>>, "")

Navigate ==
    /\ pc = "navigate"
    /\ \E get \in CallOutcome :
       \E wait \in IfReached(get = "ok", CallOutcome, "ok") :
        RunStage("navigate",
                 IF driver = "none" THEN NoDriver
                 ELSE navigate_to_video(get, wait),
                 "dialog")
    /\ UNCHANGED success

OpenDialog ==
    /\ pc = "dialog"
    /\ \E popup \in PopupEnvs, more \in ElemBehaviour :
       \E report \in IfReached(ClickOk(more), ElemBehaviour, "ok") :
       \E dialog \in IfReached(ClickOk(more) /\ ClickOk(report),
                                DialogBehaviour, "visible") :
        RunStage("dialog", open_report_dialog(popup, more, report, dialog), "reason")
    /\ UNCHANGED success

SelectReason ==
    /\ pc = "reason"
    /\ \E reason \in IfReached(report_type \in DOMAIN REPORT_TYPES, ElemBehaviour, "ok") :
       \E dropdown \in IfReached(ClickOk(reason) /\ NeedsSubOption(report_type),
                                  ElemBehaviour, "ok") :
       \E sub \in IfReached(ClickOk(reason) /\ ClickOk(dropdown)
                               /\ NeedsSubOption(report_type), ElemBehaviour, "ok") :
       \E cont \in IfReached(ClickOk(reason) /\ ClickOk(dropdown) /\ ClickOk(sub),
                              ElemBehaviour, "ok") :
        RunStage("reason",
                 select_report_reason(report_type, reason, dropdown, sub, cont),
                 "submit")
    /\ UNCHANGED success

\* line 579: success = self.submit_report()
Submit ==
    /\ pc = "submit"
    /\ \E textarea \in IfReached(additional_details /= "", ElemBehaviour, "ok") :
       \E submit \in IfReached(textarea = "absent" \/ TypeOk(textarea),
                                ElemBehaviour, "ok") :
        LET r == submit_report(additional_details, textarea, submit)
        IN  /\ \E saveOk \in SaveOutcomes(r.shot) : Capture(r.ev, r.shot, saveOk)
            /\ stages' = Append(stages, Stage("submit", r.ret))
            /\ success' = (r.ret = "True")
    /\ pc' = "final"
    /\ UNCHANGED <<request, video_id, driver, browser, result,
                   cookie_file>>
    /\ UNCHANGED <<web_vars, cm_vars, scroll_vars, run_vars>>

\* lines 581-590
FinalState ==
    /\ pc = "final"
    /\ \E saveOk \in SaveOutcomes(FinalTag(success)) :
        Capture(<<>>, FinalTag(success), saveOk)
    /\ pc' = "cleanup"
    /\ UNCHANGED <<request, video_id, driver, browser, stages, success, result,
                   cookie_file>>
    /\ UNCHANGED <<web_vars, cm_vars, scroll_vars, run_vars>>

\* lines 592-596
HandleException ==
    /\ pc = "except"
    /\ \E saveOk \in SaveOutcomes("unexpected_error") :
        Capture(<<>>, "unexpected_error", saveOk)
    /\ success' = FALSE
    /\ pc' = "cleanup"
    /\ UNCHANGED <<request, video_id, driver, browser, stages, result,
                   cookie_file>>
    /\ UNCHANGED <<web_vars, cm_vars, scroll_vars, run_vars>>

\* lines 598-604: the finally block.  quit may raise; the browser process
\* may or may not survive a quit that raised.
Cleanup ==
    /\ pc = "cleanup"
    /\ IF QuitsDriver(driver)
       THEN \E quitOk \in BOOLEAN, killed \in BOOLEAN :
            /\ events' = Append(events, Ev("quit", "quit_call", "", quitOk))
            /\ WithinBudget(events')
            /\ browser' = IF quitOk \/ killed THEN "quit" ELSE browser
            /\ pc' = AfterCleanup(quitOk)
       ELSE /\ pc' = "return"
            /\ UNCHANGED <<events, browser>>
    /\ UNCHANGED <<request, video_id, driver, screenshots_taken, latest_screenshot,
                   files, stages, success, captures, cookie_file, result>>
    /\ UNCHANGED <<web_vars, cm_vars, scroll_vars, run_vars>>

\* lines 622-629 for the module-level call; the bool for a direct call
Return ==
    /\ pc = "return"
    /\ result' = [success |-> success,
                  evidence |-> IF entry = "module" THEN latest_screenshot ELSE None,
                  kind |-> IF entry = "module" THEN "pair" ELSE "bool"]
    /\ pc' = "returned"
    /\ UNCHANGED <<request, video_id, driver, browser, screenshots_taken,
                   latest_screenshot, files, events, stages, success, captures,
                   cookie_file>>
    /\ UNCHANGED <<web_vars, cm_vars, scroll_vars, run_vars>>

Next ==
    \/ ReportVideo
    \/ Construct
    \/ DirectScreenshot
    \/ Validate
    \/ Setup
    \/ Navigate
    \/ OpenDialog
    \/ SelectReason
    \/ Submit
    \/ FinalState
    \/ HandleException
    \/ Cleanup
    \/ Return

Spec == Init /\ [][Next]_vars

(* ============================ app.py: web layer ======================== *)
\* One outside call of the web layer: op, and whether it returned
Fx(op, ok) == [op |-> op, ok |-> ok]

Configs ==
    [EMAIL_ENABLED : BOOLEAN, EMAIL_USER : {"", "user"}, EMAIL_PASS : {"", "pass"},
     EMAIL_RECEIVER : {"", "admin"}]

Forms ==
    [video_url : {"", "url"}, report_category : {"", "spam"},
     report_details : {"", "details"}]

\* what the call of report_video at line 163 can give: a pair, or an
\* exception (driver.quit() raising in its finally block)
PipelineOutcomes ==
    {[kind |-> "pair", success |-> b, evidence |-> e] :
        b \in BOOLEAN, e \in {"None", "shot.png"}}
    \cup {[kind |-> "raise", success |-> FALSE, evidence |-> "None"]}

SmtpOutcome == {"connect_fails", "login_fails", "send_fails", "ok"}

\* a notifier that does not look at the credentials
Configured_Unchecked(cfg) == cfg.EMAIL_ENABLED

\* lines 67-78
Configured(cfg) ==
    /\ cfg.EMAIL_ENABLED
    /\ cfg.EMAIL_USER /= "" /\ cfg.EMAIL_PASS /= "" /\ cfg.EMAIL_RECEIVER /= ""

\* lines 103-118: the attachment; a failure is logged and the message goes
\* out without it
Attach(screenshot_path, attachOk) ==
    IF screenshot_path = "None" THEN <<>>
    ELSE <<Fx("open_screenshot", attachOk)>>

\* lines 121-129
Send(smtp) ==
    IF smtp = "connect_fails" THEN <<Fx("smtp_connect", FALSE)>>
    ELSE IF smtp = "login_fails"
         THEN <<Fx("smtp_connect", TRUE), Fx("smtp_login", FALSE)>>
    ELSE <<Fx("smtp_connect", TRUE), Fx("smtp_login", TRUE),
           Fx("smtp_send", smtp = "ok")>>

send_email_notification(cfg, screenshot_path, attachOk, smtp) ==
    IF ~Configured(cfg) THEN [ret |-> FALSE, fx |-> <<>>]
    ELSE [ret |-> smtp = "ok", fx |-> Attach(screenshot_path, attachOk) \o Send(smtp)]

\* a route that runs the pipeline whatever the form holds
FormComplete_Unchecked(f) == TRUE

\* line 158
FormComplete(f) == f.video_url /= "" /\ f.report_category /= ""

\* POST /submit_report arrives
Post ==
    /\ wpc = "idle"
    /\ form' \in Forms
    /\ wpc' = "form"
    /\ UNCHANGED <<config, piped, email_sent, effects, records, response>>
    /\ UNCHANGED <<bot_vars, cm_vars, scroll_vars, run_vars>>

\* lines 157-160
CheckForm ==
    /\ wpc = "form"
    /\ IF FormComplete(form)
       THEN wpc' = "pipeline" /\ UNCHANGED response
       ELSE wpc' = "done" /\ response' = "redirect_missing_fields"
    /\ UNCHANGED <<form, config, piped, email_sent, effects, records>>
    /\ UNCHANGED <<bot_vars, cm_vars, scroll_vars, run_vars>>

\* line 163
CallPipeline ==
    /\ wpc = "pipeline"
    /\ \E out \in PipelineOutcomes :
        /\ effects' = Append(effects, Fx("report_video", out.kind = "pair"))
        /\ IF out.kind = "pair"
           THEN /\ piped' = [success |-> out.success, evidence |-> out.evidence]
                /\ wpc' = "notify"
                /\ UNCHANGED response
           ELSE /\ wpc' = "done"
                /\ response' = "server_error"
                /\ UNCHANGED piped
    /\ UNCHANGED <<form, config, email_sent, records>>
    /\ UNCHANGED <<bot_vars, cm_vars, scroll_vars, run_vars>>

\* lines 165-166: the call, with the pair the pipeline returned
Notification(flag, path) ==
    [op |-> "send_email_notification", ok |-> TRUE, success |-> flag,
     screenshot_path |-> path]

\* lines 165-170
Notify ==
    /\ wpc = "notify"
    /\ \E attachOk \in IfReached(Configured(config) /\ piped.evidence /= "None",
                                  BOOLEAN, TRUE) :
       \E smtp \in IfReached(Configured(config), SmtpOutcome, "ok") :
        LET r == send_email_notification(config, piped.evidence, attachOk, smtp)
        IN  /\ effects' = effects \o <<Notification(piped.success, piped.evidence)>>
                                   \o r.fx
            /\ email_sent' = IF r.ret THEN "True" ELSE "False"
    /\ IF piped.success
       THEN wpc' = "persist" /\ UNCHANGED response
       ELSE wpc' = "done" /\ response' = "redirect_failed"
    /\ UNCHANGED <<form, config, piped, records>>
    /\ UNCHANGED <<bot_vars, cm_vars, scroll_vars, run_vars>>

VideoReport(f) ==
    [video_url |-> f.video_url, report_category |-> f.report_category,
     report_details |-> f.report_details]

\* lines 177-207
Persist ==
    /\ wpc = "persist"
    /\ \E commitOk \in BOOLEAN :
        /\ effects' = effects \o <<Fx("db_add", TRUE), Fx("db_commit", commitOk)>>
                               \o (IF commitOk THEN <<>> ELSE <<Fx("db_rollback", TRUE)>>)
        /\ records' = IF commitOk THEN Append(records, VideoReport(form)) ELSE records
        /\ response' = IF ~commitOk THEN "redirect_error"
                        ELSE IF email_sent = "True" THEN "redirect_notified"
                        ELSE "redirect_submitted"
    /\ wpc' = "done"
    /\ UNCHANGED <<form, config, piped, email_sent>>
    /\ UNCHANGED <<bot_vars, cm_vars, scroll_vars, run_vars>>

InitWeb ==
    /\ BotIdle /\ CookiesIdle /\ ScrollIdle /\ RunsIdle
    /\ wpc = "idle"
    /\ form = NoForm
    /\ config \in Configs
    /\ piped = NotPiped
    /\ email_sent = "unset"
    /\ effects = <<>>
    /\ records = <<>>
    /\ response = "none"

NextWeb ==
    \/ Post
    \/ CheckForm
    \/ CallPipeline
    \/ Notify
    \/ Persist

SpecWeb == InitWeb /\ [][NextWeb]_vars

(* ================= cookies_manager.py: login_using_cookie_file ========= *)
https == <<"h","t","t","p","s",":","/","/">>
robots_txt == <<"/","r","o","b","o","t","s",".","t","x","t">>
google_com == <<"g","o","o","g","l","e",".","c","o","m">>

\* the domain fields met in cookie files: .youtube.com, www.youtube.com,
\* .www.google.com; <<>> stands for a cookie without the key
CookieDomains == {<<".">> \o youtube_com, www \o youtube_com,
                  <<".">> \o www \o google_com}

\* lines 36-44
domain_to_url(domain) ==
    IF domain /= <<>> /\ Head(domain) = "." /\ ~IsSubstring(<<"w","w","w">>, domain)
    THEN https \o <<"w","w","w">> \o domain
    ELSE IF IsSubstring(<<"w","w","w">>, domain) /\ domain /= <<>> /\ Head(domain) = "."
    THEN https \o Tail(domain)
    ELSE https \o domain

\* a cookie of the file; accepted = add_cookie takes it
Cookie(domain, accepted) == [domain |-> domain, accepted |-> accepted]

Jars == SeqsUpTo({Cookie(d, a) : d \in CookieDomains \cup {<<>>}, a \in BOOLEAN}, MaxJar)

\* a grouping that opens a new group whenever the domain changes
RECURSIVE GroupByDomain_Runs(_, _, _)
GroupByDomain_Runs(cookies, k, groups) ==
    IF k > Len(cookies) THEN groups
    ELSE IF groups /= <<>> /\ groups[Len(groups)].domain = cookies[k].domain
         THEN GroupByDomain_Runs(cookies, k + 1,
                  [groups EXCEPT ![Len(groups)].ids = Append(@, k)])
         ELSE GroupByDomain_Runs(cookies, k + 1,
                  Append(groups, [domain |-> cookies[k].domain, ids |-> <<k>>]))

\* lines 52-57: the dict domain -> cookies, keys in insertion order; the
\* cookies are named by their position in the file.  Called with k = 1 and
\* groups = <<>>.
RECURSIVE GroupByDomain(_, _, _)
GroupByDomain(cookies, k, groups) ==
    IF k > Len(cookies) THEN groups
    ELSE IF \E g \in 1..Len(groups) : groups[g].domain = cookies[k].domain
         THEN LET g == CHOOSE g \in 1..Len(groups) : groups[g].domain = cookies[k].domain
              IN  GroupByDomain(cookies, k + 1, [groups EXCEPT ![g].ids = Append(@, k)])
         ELSE GroupByDomain(cookies, k + 1,
                  Append(groups, [domain |-> cookies[k].domain, ids |-> <<k>>]))

\* one driver call of login_using_cookie_file
Visit(op, domain, target, id, ok) ==
    [op |-> op, domain |-> domain, target |-> target, id |-> id, ok |-> ok]

\* lines 61-65: the add_cookie calls for one domain, failures swallowed
RECURSIVE InstallCookies(_, _, _)
InstallCookies(cookies, domain, ids) ==
    IF ids = <<>> THEN <<>>
    ELSE <<Visit("add_cookie", domain, <<>>, Head(ids), cookies[Head(ids)].accepted)>>
         \o InstallCookies(cookies, domain, Tail(ids))

\* lines 48-57: open the file, json.load, group.  A cookie without the
\* key "domain" raises KeyError out of the except branch.
LoadJar ==
    /\ cpc = "idle"
    /\ \E readOk \in BOOLEAN :
       \E file \in IfReached(readOk, Jars, <<>>) :
        /\ jar' = file
        /\ IF ~readOk \/ (\E k \in 1..Len(file) : file[k].domain = <<>>)
           THEN cpc' = "raised" /\ UNCHANGED domain_cookies
           ELSE cpc' = "loop" /\ domain_cookies' = GroupByDomain(file, 1, <<>>)
    /\ UNCHANGED visits
    /\ UNCHANGED <<bot_vars, web_vars, scroll_vars, run_vars>>

\* the iterations of the loop at line 59 that have started
Started == {i \in 1..Len(visits) : visits[i].op = "get"}

\* lines 59-65: one iteration of the loop over domain_cookies.items();
\* driver.get is not guarded
VisitDomain ==
    /\ cpc = "loop"
    /\ Cardinality(Started) < Len(domain_cookies)
    /\ LET g == Cardinality(Started) + 1
           d == domain_cookies[g].domain
       IN  \E getOk \in BOOLEAN :
            IF getOk
            THEN /\ visits' = visits
                       \o <<Visit("get", d, domain_to_url(d \o robots_txt), 0, TRUE)>>
                       \o InstallCookies(jar, d, domain_cookies[g].ids)
                 /\ cpc' = "loop"
            ELSE /\ visits' = Append(visits,
                        Visit("get", d, domain_to_url(d \o robots_txt), 0, FALSE))
                 /\ cpc' = "raised"
    /\ UNCHANGED <<jar, domain_cookies>>
    /\ UNCHANGED <<bot_vars, web_vars, scroll_vars, run_vars>>

\* line 66
ReturnTrue ==
    /\ cpc = "loop"
    /\ Cardinality(Started) = Len(domain_cookies)
    /\ cpc' = "returned"
    /\ UNCHANGED <<jar, domain_cookies, visits>>
    /\ UNCHANGED <<bot_vars, web_vars, scroll_vars, run_vars>>

InitCookies == BotIdle /\ WebIdle /\ CookiesIdle /\ ScrollIdle /\ RunsIdle

NextCookies ==
    \/ LoadJar
    \/ VisitDomain
    \/ ReturnTrue

SpecCookies == InitCookies /\ [][NextCookies]_vars

\* report_video runs to its end: no step of the flow waits for anything but
\* the calls it makes itself, and those return or raise
SpecLive == Spec /\ WF_vars(Next)

(* =========================== human_like_scroll ========================= *)
\* direction and distance as a caller may give them
Directions == {"down", "up", "left"}
Distances == {NoDistance} \cup {Distance(TRUE, v) : v \in (0 - MaxDistance)..MaxDistance}

\* `not distance`: None and 0 are both falsy
Falsy(distance) == ~distance.given \/ distance.value = 0

\* random.randint(a, b) of lines 235 and 239
RandomRange(direction) == IF direction = "up" THEN 100..300 ELSE 200..500

Abs(n) == IF n < 0 THEN 0 - n ELSE n

\* the text of the second argument of scrollBy as the f-string builds it:
\* the minus signs in front and the digits
Formatted(prefix, n) ==
    [minus |-> (IF prefix THEN 1 ELSE 0) + (IF n < 0 THEN 1 ELSE 0), digits |-> Abs(n)]

\* what the page makes of that text: "--n" is not an expression
Parses(text) == text.minus <= 1
Amount(text) == IF text.minus = 1 THEN 0 - text.digits ELSE text.digits

ScrollCall(text, ok) ==
    [op |-> "scrollBy", text |-> text, ok |-> ok,
     amount |-> IF ok THEN Amount(text) ELSE 0]
DelayCall == [op |-> "delay", text |-> Formatted(FALSE, 0), ok |-> TRUE, amount |-> 0]

\* lines 226-243.  rnd = what random.randint gives when it is asked;
\* scriptOk = execute_script returned (given a script that parses)
human_like_scroll(drv, direction, distance, rnd, scriptOk) ==
    IF drv = "none" THEN <<>>
    ELSE LET d == IF Falsy(distance) THEN rnd ELSE distance.value
             text == Formatted(direction = "up", d)
             ok == Parses(text) /\ scriptOk
         IN  IF direction \in {"down", "up"}
             THEN <<ScrollCall(text, ok)>> \o (IF ok THEN <<DelayCall>> ELSE <<>>)
             ELSE <<DelayCall>>

CallScroll ==
    /\ spc = "idle"
    /\ \E drv \in {"none", "set"}, direction \in Directions, distance \in Distances :
          sarg' = [driver |-> drv, direction |-> direction, distance |-> distance]
    /\ spc' = "called"
    /\ UNCHANGED scrolls
    /\ UNCHANGED <<bot_vars, web_vars, cm_vars, run_vars>>

Scroll ==
    /\ spc = "called"
    /\ \E rnd \in IfReached(sarg.driver /= "none" /\ Falsy(sarg.distance)
                             /\ sarg.direction \in {"down", "up"},
                           RandomRange(sarg.direction), 0),
          scriptOk \in IfReached(sarg.driver /= "none"
                                   /\ sarg.direction \in {"down", "up"}, BOOLEAN, TRUE) :
          scrolls' = human_like_scroll(sarg.driver, sarg.direction, sarg.distance,
                                       rnd, scriptOk)
    /\ spc' = "done"
    /\ UNCHANGED sarg
    /\ UNCHANGED <<bot_vars, web_vars, cm_vars, run_vars>>

InitScroll == BotIdle /\ WebIdle /\ CookiesIdle /\ ScrollIdle /\ RunsIdle

NextScroll ==
    \/ CallScroll
    \/ Scroll

SpecScroll == InitScroll /\ [][NextScroll]_vars

(* ================ invocations of the module-level report_video ========= *)
\* the variables of the pipeline other than the module global
bot_rest == <<pc, entry, url, report_type, additional_details, cookies_path, video_id,
              driver, browser, screenshots_taken, files, events, stages, success,
              captures, cookie_file, result>>

\* an entry that leaves the global as the last invocation left it
ResetAtEntry_Kept(latest) == latest

\* lines 608-609: latest_screenshot = None
ResetAtEntry(latest) == None

Running == {r \in Runs : invocations[r].pc = "running"}

\* the captures attempted so far by the invocations 1..n
RECURSIVE Shots(_)
Shots(n) == IF n = 0 THEN 0 ELSE invocations[n].taken + Shots(n - 1)

\* lines 606-616: the global is reset and a reporter constructed, its
\* counter at 0.  Invocations are numbered in the order they enter.
Enter(r) ==
    /\ invocations[r].pc = "idle"
    /\ IF r = 1 THEN TRUE ELSE invocations[r - 1].pc /= "idle"
    /\ latest_screenshot' = ResetAtEntry(latest_screenshot)
    /\ latest_by' = IF latest_screenshot' = None THEN 0 ELSE latest_by
    /\ invocations' =
          [s \in Runs |->
              IF s = r
              THEN [NoInvocation EXCEPT !.pc = "running", !.overlapped = Running /= {}]
              ELSE IF s \in Running THEN [invocations[s] EXCEPT !.overlapped = TRUE]
              ELSE invocations[s]]
    /\ UNCHANGED <<bot_rest, web_vars, cm_vars, scroll_vars>>

\* lines 169-184, called by the reporter of invocation r somewhere inside
\* reporter.report_video (line 619) while its driver exists
Shoot(r) ==
    /\ invocations[r].pc = "running"
    /\ Shots(MaxRuns) < MaxShots
    /\ \E saveOk \in BOOLEAN :
        LET d == take_screenshot([taken |-> invocations[r].taken,
                                  latest |-> latest_screenshot,
                                  files |-> invocations[r].saved, ev |-> <<>>],
                                 "set", "final_state_failure", saveOk)
        IN  /\ latest_screenshot' = d.latest
            /\ latest_by' = IF saveOk THEN r ELSE latest_by
            /\ invocations' = [invocations EXCEPT ![r].taken = d.taken,
                                                  ![r].saved = d.files]
    /\ UNCHANGED <<bot_rest, web_vars, cm_vars, scroll_vars>>

\* lines 619-629: reporter.report_video returned True or False, or raised;
\* the pair returned reads the global at that moment
Leave(r) ==
    /\ invocations[r].pc = "running"
    /\ \E out \in {"True", "False", "raise"} :
        invocations' =
            [invocations EXCEPT
                ![r].pc = "returned",
                ![r].by = latest_by,
                ![r].result =
                    IF out = "raise"
                    THEN [success |-> FALSE, evidence |-> None, kind |-> "raise"]
                    ELSE [success |-> out = "True", evidence |-> latest_screenshot,
                          kind |-> "pair"]]
    /\ UNCHANGED <<latest_screenshot, latest_by>>
    /\ UNCHANGED <<bot_rest, web_vars, cm_vars, scroll_vars>>

InitRuns == BotIdle /\ WebIdle /\ CookiesIdle /\ ScrollIdle /\ RunsIdle

NextRuns ==
    \/ \E r \in Runs : Enter(r)
    \/ \E r \in Runs : Shoot(r)
    \/ \E r \in Runs : Leave(r)

SpecRuns == InitRuns /\ [][NextRuns]_vars

(* ======================= properties of the pipeline ==================== *)
EventIdx == 1..Len(events)
Calls(op) == {i \in EventIdx : events[i].op = op}
Launches == Cardinality(Calls("uc.Chrome"))
QuitCalls == Cardinality(Calls("quit"))
BrowserStarted == \E i \in Calls("uc.Chrome") : events[i].ok
EngineFailed == \E i \in Calls("uc.Chrome") : ~events[i].ok

\* the return of stage method `name` in this run, "notrun" if it was not called
StageRet(name) ==
    IF \E i \in 1..Len(stages) : stages[i].name = name
    THEN stages[CHOOSE i \in 1..Len(stages) : stages[i].name = name].ret
    ELSE "notrun"

StageOrder == <<"validate", "setup", "navigate", "dialog", "reason", "submit">>
AllStagesOk == \A i \in 1..Len(StageOrder) : StageRet(StageOrder[i]) = "True"
AllCapturesOk == \A i \in Calls("save_screenshot") : events[i].ok

\* YouTubeReporter.report_video is over: it returned, or an exception left it
MethodOver == pc \in {"return", "returned", "raised"}
Ended == pc \in {"returned", "raised"}

\* C1: in a run in which setup_driver returned True, driver.quit() is called
\* exactly once, and before report_video is over, whether the stages
\* returned True, returned False or raised.
C1_QuitExactlyOnce ==
    /\ QuitCalls <= 1
    /\ (StageRet("setup") = "True" /\ MethodOver) => QuitCalls = 1

\* C1 witness: a run whose navigate stage raised has returned, with one quit
C1_Witness ==
    /\ pc = "returned"
    /\ StageRet("navigate") = "raise"
    /\ QuitCalls = 1

\* C2: no run ends with a browser process that was started and never quit,
\* also when setup_driver fails after uc.Chrome returned.
C2_NoLeakedBrowser == (Ended /\ BrowserStarted) => QuitCalls >= 1

\* position of a browser call in the forward order of the flow; 0 for the
\* calls made at several places (scroll, screenshot, quit)
Rank(e) ==
    IF e.op = "head" THEN 1
    ELSE IF e.op \in {"makedirs", "uc.Chrome", "implicitly_wait", "json.load",
                      "add_cookie"} \/ e.tag = "youtube_home" THEN 2
    ELSE IF e.tag = "video" THEN 3
    ELSE IF e.tag \in {"dismiss", "more_actions", "report_item", "report_dialog"} THEN 4
    ELSE IF e.tag = "reason" THEN 5
    ELSE IF e.tag \in {"dropdown", "sub_option"} THEN 6
    ELSE IF e.tag = "continue" THEN 7
    ELSE IF e.tag = "textarea" \/ e.op = "send_keys" THEN 8
    ELSE IF e.tag = "submit" THEN 9
    ELSE 0

ClickedOk(tag) ==
    \E i \in Calls("click") : events[i].tag = tag /\ events[i].ok

\* C3: the stages run in the forward order validate, setup, navigate, dialog,
\* reason (with the sub-reason), details, submit; each at most once; a stage
\* starts only after all earlier ones succeeded, none after a failure.
C3_StrictForwardOrder ==
    /\ Len(stages) <= Len(StageOrder)
    /\ \A i \in 1..Len(stages) :
        /\ stages[i].name = StageOrder[i]
        /\ i < Len(stages) => stages[i].ret = "True"
    /\ LET ranks == [k \in EventIdx |-> Rank(events[k])]
           ranked == SelectSeq(ranks, LAMBDA r : r > 0)
       IN  /\ \A k \in 1..(Len(ranked) - 1) : ranked[k] <= ranked[k + 1]
           /\ (\E k \in 1..Len(ranked) : ranked[k] = 6) => ClickedOk("reason")
           /\ (\E k \in 1..Len(ranked) : ranked[k] \in {8, 9}) => ClickedOk("continue")
           /\ (\E k \in 1..Len(ranked) : ranked[k] >= 3) => BrowserStarted

\* C3 witness: a successful run with a sub-reason and details has returned
C3_Witness ==
    /\ pc = "returned"
    /\ AllStagesOk
    /\ ClickedOk("sub_option")
    /\ \E i \in Calls("send_keys") : events[i].ok
    /\ ClickedOk("submit")

\* C4: report_video returns True iff validation, setup, navigate, dialog,
\* reason and submit all completed without failure, and returns False in
\* every other case.
C4_SuccessIffAllStages ==
    (Ended /\ entry = "module") =>
        /\ pc = "returned"
        /\ result.success <=> AllStagesOk

\* C5: every invocation of the module-level report_video returns one
\* (success, evidence) pair and never propagates an exception.
C5_NeverPropagates ==
    entry = "module" => (pc /= "raised" /\ (pc = "returned" => result.kind = "pair"))

\* C6: when validate_youtube_url rejects the URL the run launches no browser,
\* navigates nowhere, captures nothing, and returns (False, None).
C6_InvalidUrlNoBrowser ==
    StageRet("validate") = "False" =>
        /\ Launches = 0
        /\ \A i \in EventIdx : events[i].op = "head"
        /\ screenshots_taken = 0 /\ files = <<>>
        /\ Len(stages) = 1
        /\ pc \in {"return", "returned"}
        /\ (pc = "returned" /\ entry = "module") =>
                (~result.success /\ result.evidence = None)

\* C6 witness: report_video("https://notplatform.com/x", ...) has returned
C6_Witness ==
    /\ pc = "returned" /\ entry = "module"
    /\ url = UrlOther
    /\ ~result.success

\* C7: a category code that is not a key of REPORT_TYPES is rejected before
\* any browser is launched and before any navigation or click.
C7_UnknownCategoryPreflight ==
    report_type \notin DOMAIN REPORT_TYPES =>
        /\ Launches = 0
        /\ \A i \in EventIdx : events[i].op \notin {"get", "click", "hover"}

\* C8: when the browser engine cannot start, the launch is attempted once,
\* no navigation and no report stage follows, and report_video returns
\* (False, None).
C8_EngineFailureTerminal ==
    EngineFailed =>
        /\ Launches = 1
        /\ ~events[Len(events)].ok /\ events[Len(events)].op = "uc.Chrome"
        /\ Len(stages) = 2
        /\ screenshots_taken = 0
        /\ pc \in {"return", "returned"}
        /\ (pc = "returned" /\ entry = "module") =>
                (~result.success /\ result.evidence = None)

\* C8 witness: a module-level call whose uc.Chrome raised has returned
C8_Witness ==
    /\ pc = "returned" /\ entry = "module"
    /\ EngineFailed

SubReasonCalls == {i \in EventIdx : events[i].tag \in {"dropdown", "sub_option"}}

\* C9: for a category code of REPORT_TYPES whose reason option was clicked,
\* the sub-reason dropdown is located iff the code is not in not_sub_option,
\* and a stage that returns True has then clicked an entry; for child,
\* terrorism and misinformation nothing of the sub-reason step is touched.
C9_SubReasonIffNotExempt ==
    /\ SubReasonCalls /= {} => report_type \in DOMAIN REPORT_TYPES \ not_sub_option
    /\ (StageRet("reason") /= "notrun" /\ ClickedOk("reason")) =>
         ((\E i \in Calls("find") : events[i].tag = "dropdown")
              <=> report_type \notin not_sub_option)
    /\ StageRet("reason") = "True" =>
         (ClickedOk("sub_option") <=> report_type \notin not_sub_option)

\* C9 witness: the reason stage succeeded for "child" without any sub-reason call
C9_Witness ==
    /\ report_type = "child"
    /\ StageRet("reason") = "True"
    /\ ClickedOk("continue")
    /\ SubReasonCalls = {}

\* scenario A: canonical URL, spam, no details, every stage and capture fine
ScenarioA ==
    /\ entry = "module"
    /\ url = UrlCanonical /\ report_type = "spam" /\ additional_details = ""
    /\ AllStagesOk /\ AllCapturesOk

\* C10 as stated: in scenario A report_video returns (True, path) with path
\* the screenshot tagged final_after_submit_click.
C10_EvidenceIsSubmitShot ==
    (ScenarioA /\ pc = "returned") =>
        (result.success /\ result.evidence.tag = "final_after_submit_click")

\* C10 amended: in scenario A the run saves final_after_submit_click and
\* then final_state_success; the latter is the latest evidence when the run
\* is over, and a call that returns returns (True, that path).
C10_EvidenceIsFinalState ==
    (ScenarioA /\ Ended) =>
        /\ files = <<ScreenshotPath(1, "final_after_submit_click"),
                     ScreenshotPath(2, "final_state_success")>>
        /\ latest_screenshot = ScreenshotPath(2, "final_state_success")
        /\ pc = "returned" =>
               (result.success /\ result.evidence = latest_screenshot)

\* C10 witness: scenario A has returned with evidence
C10_Witness ==
    /\ ScenarioA /\ pc = "returned"
    /\ result.success
    /\ result.evidence /= None

(* ========================= evidence and captures ======================= *)
\* the wait for the video element (line 264) ran out
VideoWaitTimedOut ==
    \E i \in Calls("wait_present") : events[i].tag = "video" /\ events[i].el = "timeout"

\* the take_screenshot calls made with tag `tag`
CapturesTagged(tag) == {i \in 1..Len(captures) : captures[i].tag = tag}

\* C11 as stated: valid URL, session acquired, the video element never
\* appears within the wait: report_video returns (False, path) with path the
\* screenshot tagged video_load_timeout.
C11_TimeoutEvidence ==
    (entry = "module" /\ VideoWaitTimedOut /\ pc = "returned") =>
        (~result.success /\ result.evidence.tag = "video_load_timeout")

\* C11 amended: when the video element never appears within the wait, the
\* navigate stage makes one capture tagged video_load_timeout and returns
\* False, no later stage runs, driver.quit() is called once before
\* report_video is over, and a call that returns returns (False, path): path
\* is that screenshot if it was saved and null if the save failed.
C11_TimeoutStopsRun ==
    VideoWaitTimedOut =>
        /\ Cardinality(CapturesTagged("video_load_timeout")) = 1
        /\ captures[Len(captures)].tag = "video_load_timeout"
        /\ captures[Len(captures)].outcome \in {"saved", "failed"}
        /\ StageRet("navigate") = "False"
        /\ Len(stages) = 3
        /\ MethodOver => QuitCalls = 1
        /\ (entry = "module" /\ pc = "returned") =>
              /\ ~result.success
              /\ result.evidence = IF captures[Len(captures)].outcome = "saved"
                                   THEN ScreenshotPath(1, "video_load_timeout")
                                   ELSE None

\* C11 witness: a timed-out run returned (False, the video_load_timeout shot)
C11_Witness ==
    /\ entry = "module" /\ VideoWaitTimedOut /\ pc = "returned"
    /\ ~result.success
    /\ result.evidence = ScreenshotPath(1, "video_load_timeout")
    /\ browser = "quit"

\* C12: the evidence path returned by the module-level report_video is the
\* last screenshot of that run whose save succeeded, and null if the run
\* saved none.
C12_EvidenceIsLastSaved ==
    (entry = "module" /\ pc = "returned") =>
        result.evidence = IF files = <<>> THEN None ELSE files[Len(files)]

\* C12 witness: a run saved final_after_submit_click, failed to save the
\* final-state capture, and returned the former as evidence
C12_Witness ==
    /\ entry = "module" /\ pc = "returned"
    /\ Len(captures) = 2
    /\ captures[2].outcome = "failed"
    /\ result.evidence = ScreenshotPath(1, "final_after_submit_click")

(* ============================ URL validation =========================== *)
\* the host is the platform's domain or one of its subdomains
IsPlatformHost(n) ==
    \/ n = youtube_com
    \/ /\ Len(n) > Len(youtube_com)
       /\ SubSeq(n, Len(n) - Len(youtube_com), Len(n)) = <<".">> \o youtube_com

IsShortHost(n) == n = youtu_be

\* the non-blank values of query parameter v, by position
IdValues(u) == {i \in 1..Len(u.query) : u.query[i].k = "v" /\ u.query[i].v /= <<>>}

\* a canonical watch URL that carries an identifier
IsCanonicalWatch(u) ==
    IsPlatformHost(u.netloc) /\ u.path = watch_path /\ IdValues(u) /= {}

FirstId(u) == u.query[CHOOSE i \in IdValues(u) : \A j \in IdValues(u) : i <= j].v

\* a path made of one segment: /seg or /seg/
IsOneSegment(p) ==
    /\ Len(p) >= 2 /\ p[1] = "/" /\ p[2] /= "/"
    /\ \A i \in 2..(Len(p) - 1) : p[i] /= "/"

Segment(p) == SelectSeq(p, LAMBDA c : c /= "/")

IsShortLink(u) == IsShortHost(u.netloc) /\ IsOneSegment(u.path)

Validated == StageRet("validate") /= "notrun"

\* C13: validate_youtube_url returns the v query value for a canonical watch
\* URL, the path segment for a short-link URL, and None when the reachability
\* probe gets an HTTP error status or a network exception.
C13_ValidateExtractsId ==
    Validated =>
        /\ url.probe /= "ok" => video_id = Invalid
        /\ (url.probe = "ok" /\ IsCanonicalWatch(url)) => video_id = VideoId(FirstId(url))
        /\ (url.probe = "ok" /\ IsShortLink(url)) => video_id = VideoId(Segment(url.path))

\* C13 witness: the short link https://youtu.be/abc/ was validated to abc
C13_Witness ==
    /\ Validated
    /\ url = UrlShort
    /\ video_id = VideoId(abc)

\* C14: validate_youtube_url returns None for every URL whose host is
\* neither the platform's domain or a subdomain of it nor the short-link
\* host, and for a URL of those hosts that carries no identifier.
C14_ForeignHostRejected ==
    (Validated /\ url.probe = "ok") =>
        /\ ~(IsPlatformHost(url.netloc) \/ IsShortHost(url.netloc)) => video_id = Invalid
        /\ (IsPlatformHost(url.netloc) /\ IdValues(url) = {}) => video_id = Invalid
        /\ (IsShortHost(url.netloc) /\ Segment(url.path) = <<>>) => video_id = Invalid

(* ============================ take_screenshot ========================== *)
\* the take_screenshot call made by the step, if it made one
CaptureMade == Len(captures') = Len(captures) + 1
ThisCapture == captures'[Len(captures')]

\* C15: take_screenshot never raises.  Called with no driver it is a no-op:
\* neither screenshots_taken nor latest_screenshot changes.  A save that
\* fails is swallowed: latest_screenshot is unchanged and the caller goes on
\* to its normal return.
C15_CaptureNeverAborts ==
    [][CaptureMade =>
        /\ ThisCapture.outcome = "noop" <=> driver = "none"
        /\ ThisCapture.outcome = "noop" =>
              /\ screenshots_taken' = screenshots_taken
              /\ latest_screenshot' = latest_screenshot
              /\ files' = files /\ events' = events
        /\ ThisCapture.outcome = "failed" =>
              /\ latest_screenshot' = latest_screenshot
              /\ files' = files
        /\ pc' \in {"final", "cleanup", "captured"}
        /\ ThisCapture.tag = "final_after_submit_click" => (success' /\ pc' = "final")
        /\ ThisCapture.tag \in {"final_state_success", "final_state_failure"} =>
              (success' = success /\ pc' = "cleanup")
    ]_vars

\* C15 witness: the save of final_after_submit_click failed and the run
\* returned success all the same
C15_Witness ==
    /\ pc = "returned"
    /\ result.success
    /\ \E i \in CapturesTagged("final_after_submit_click") : captures[i].outcome = "failed"

(* ======================= captures on a failed lookup =================== *)
\* the elements a stage cannot go on without
RequiredElements == {"more_actions", "report_item", "report_dialog", "reason",
                     "dropdown", "sub_option", "continue", "submit"}

\* the lookups of a required element that found none, or none visible
FailedLookups ==
    {i \in EventIdx :
        /\ events[i].op \in {"find", "wait_visible"}
        /\ events[i].tag \in RequiredElements
        /\ ~events[i].ok \/ (events[i].tag = "report_dialog" /\ events[i].el /= "visible")}

\* the captures attempted after browser call i
CapturesAfter(i) == Cardinality({j \in Calls("save_screenshot") : j > i})

\* C16 as stated: when the lookup of a required element fails, exactly one
\* screenshot is taken between the failed lookup and the return of the
\* outcome.
C16_OneCapturePerFailedLookup ==
    MethodOver => \A i \in FailedLookups : CapturesAfter(i) = 1

\* C16 amended: a failed lookup of a required element is the last browser
\* call of its stage and is followed at once by one capture attempt of that
\* stage.  That is the only capture attempt before the outcome is returned,
\* except for the submit button: there report_video adds the capture of the
\* final state, two attempts in all.
C16_CaptureOnFailedLookup ==
    \A i \in FailedLookups :
        /\ i < Len(events) /\ events[i + 1].op = "save_screenshot"
        /\ CapturesAfter(i) <= (IF events[i].tag = "submit" THEN 2 ELSE 1)
        /\ MethodOver => CapturesAfter(i) = (IF events[i].tag = "submit" THEN 2 ELSE 1)
        /\ \A j \in EventIdx : j > i => events[j].op \in {"save_screenshot", "quit"}

\* C16 witness: the Report item was not found, one capture followed, and
\* the run returned
C16_Witness ==
    /\ pc = "returned"
    /\ \E i \in FailedLookups : events[i].tag = "report_item" /\ CapturesAfter(i) = 1

\* C17: whenever submit_report is called, a capture tagged
\* final_after_submit_click is attempted before it returns, whether it
\* returns success or failure.
C17_SubmitAlwaysCaptured ==
    StageRet("submit") /= "notrun" => CapturesTagged("final_after_submit_click") /= {}

\* the textarea was looked up and not found
TextareaAbsent ==
    \E i \in Calls("find") : events[i].tag = "textarea" /\ ~events[i].ok

\* C18: with non-empty additional details and an absent textarea,
\* submit_report does not fail for it: the submit button is still looked up
\* and clicked, and the run succeeds when that click goes through.
C18_AbsentTextareaTolerated ==
    (StageRet("submit") /= "notrun" /\ TextareaAbsent) =>
        /\ additional_details /= ""
        /\ \E i \in Calls("find") : events[i].tag = "submit"
        /\ \A i \in Calls("find") : (events[i].tag = "submit" /\ events[i].ok) =>
              (i < Len(events) /\ events[i + 1].op = "click" /\ events[i + 1].tag = "submit")
        /\ StageRet("submit") = "True" <=> ClickedOk("submit")
        /\ (ClickedOk("submit") /\ pc = "returned") => result.success

\* C18 witness: the textarea was absent, the submit button was clicked and
\* the run returned success
C18_Witness ==
    /\ TextareaAbsent
    /\ ClickedOk("submit")
    /\ pc = "returned" /\ result.success

(* ================================ cookies ============================== *)
\* setup_driver got as far as the cookie block with a file to load
CookieBlockEntered ==
    /\ cookies_path = "present"
    /\ \E i \in Calls("implicitly_wait") : events[i].ok

HomeVisits == {i \in Calls("get") : events[i].tag = "youtube_home"}

\* the add_cookie calls made, in order: "ok" accepted, "bad" refused
CookieAttempts ==
    LET calls == SelectSeq(events, LAMBDA e : e.op = "add_cookie")
    IN  [k \in 1..Len(calls) |-> calls[k].tag]

\* every add_cookie call comes after a visit of the target domain
VisitBeforeCookies ==
    \A i \in Calls("add_cookie") : \E j \in HomeVisits : j < i

\* C19 as stated: given a cookie file that exists, setup_driver visits the
\* target domain before the first add_cookie call, attempts every cookie of
\* the file in order whether or not an earlier one was refused, and returns
\* True also when a cookie is bad or the file is unreadable.
C19_EveryCookieAttempted ==
    CookieBlockEntered =>
        /\ VisitBeforeCookies
        /\ CookieAttempts = cookie_file
        /\ StageRet("setup") = "True"

\* C19 amended: given a cookie file that exists and a launched browser,
\* setup_driver visits the target domain once the file is read, before any
\* add_cookie call.  If the visit returns, every cookie of the file is
\* attempted in order whether or not an earlier one was refused; if the
\* visit raises, no cookie is attempted.  A bad cookie, an unreadable file
\* and a failed visit all leave setup_driver returning True.
C19_CookiesAfterVisit ==
    CookieBlockEntered =>
        /\ VisitBeforeCookies
        /\ Cardinality(HomeVisits) <= 1
        /\ HomeVisits /= {} <=> (\E i \in Calls("json.load") : events[i].ok)
        /\ CookieAttempts = IF \E j \in HomeVisits : events[j].ok
                            THEN cookie_file ELSE <<>>
        /\ StageRet("setup") = "True"

\* C19 witness: the first cookie of the file was refused, the second was
\* attempted all the same, and setup_driver returned True
C19_Witness ==
    /\ CookieBlockEntered
    /\ cookie_file = <<"bad", "ok">>
    /\ CookieAttempts = <<"bad", "ok">>
    /\ StageRet("setup") = "True"

FxIdx == 1..Len(effects)
FxCalls(op) == {i \in FxIdx : effects[i].op = op}

\* notifications are switched off or a credential is missing
Misconfigured ==
    \/ ~config.EMAIL_ENABLED
    \/ config.EMAIL_USER = "" \/ config.EMAIL_PASS = "" \/ config.EMAIL_RECEIVER = ""

Notified == email_sent /= "unset"
MessageSent == \E i \in FxCalls("smtp_send") : effects[i].ok
SendFailed ==
    \E i \in FxIdx : effects[i].op \in {"smtp_connect", "smtp_login", "smtp_send"}
                       /\ ~effects[i].ok
AttachFailed == \E i \in FxCalls("open_screenshot") : ~effects[i].ok

C22_RecordAfterPipeline ==
    /\ \A j \in FxCalls("db_add") \cup FxCalls("db_commit") :
          \E i \in FxCalls("report_video") : i < j /\ effects[i].ok
    /\ records /= <<>> => (\E i \in FxCalls("report_video") : effects[i].ok)
    /\ Len(records) <= 1
    /\ \A k \in 1..Len(records) : records[k] = VideoReport(form)
    /\ (wpc \notin {"idle", "form"}
        /\ (form.video_url = "" \/ form.report_category = "")) =>
          (effects = <<>> /\ records = <<>> /\ email_sent = "unset")

\* C22 witness: a record was written after the pipeline returned
C22_Witness ==
    /\ wpc = "done"
    /\ records = <<VideoReport(form)>>
    /\ FxCalls("report_video") /= {}

(* ============================ cookie manager =========================== *)
VisitIdx == 1..Len(visits)
DomainVisits(d) == {i \in VisitIdx : visits[i].op = "get" /\ visits[i].domain = d}
Installs(k) == {i \in VisitIdx : visits[i].op = "add_cookie" /\ visits[i].id = k}
JarDomains == {jar[k].domain : k \in 1..Len(jar)}

\* the last driver.get before call i, 0 if there is none
LastVisitBefore(i) ==
    IF \E j \in 1..(i - 1) : visits[j].op = "get"
    THEN CHOOSE j \in 1..(i - 1) :
            /\ visits[j].op = "get"
            /\ \A m \in (j + 1)..(i - 1) : visits[m].op /= "get"
    ELSE 0

\* C23: login_using_cookie_file groups the cookies of the file by domain,
\* visits each distinct domain exactly once, and installs every cookie only
\* after its own domain was visited and before any other domain is visited.
C23_DomainVisitedOnceBeforeItsCookies ==
    /\ cpc \in {"loop", "returned"} =>
          /\ \A g, h \in 1..Len(domain_cookies) :
                domain_cookies[g].domain = domain_cookies[h].domain => g = h
          /\ \A k \in 1..Len(jar) :
                \E g \in 1..Len(domain_cookies) :
                    /\ domain_cookies[g].domain = jar[k].domain
                    /\ \E n \in 1..Len(domain_cookies[g].ids) :
                          domain_cookies[g].ids[n] = k
    /\ \A d \in JarDomains : Cardinality(DomainVisits(d)) <= 1
    /\ \A i \in VisitIdx : visits[i].op = "add_cookie" =>
          /\ visits[i].domain = jar[visits[i].id].domain
          /\ LastVisitBefore(i) /= 0
          /\ visits[LastVisitBefore(i)].domain = visits[i].domain
          /\ visits[LastVisitBefore(i)].ok
    /\ \A k \in 1..Len(jar) : Cardinality(Installs(k)) <= 1
    /\ cpc = "returned" =>
          /\ \A d \in JarDomains : Cardinality(DomainVisits(d)) = 1
          /\ \A k \in 1..Len(jar) : Cardinality(Installs(k)) = 1

\* C23 witness: a file with the cookies of two domains interleaved was
\* loaded: first domain visited, its two cookies installed, then the other
C23_Witness ==
    /\ cpc = "returned"
    /\ Len(jar) = 3
    /\ jar[1].domain = jar[3].domain /\ jar[1].domain /= jar[2].domain
    /\ Len(visits) = 5
    /\ visits[2].id = 1 /\ visits[3].id = 3 /\ visits[5].id = 2

(* ============================ stage failures =========================== *)
\* the capture tags that name a stage and a reason of its failure
StageTags(stage) ==
    IF stage = "navigate" THEN {"video_load_timeout", "navigation_error"}
    ELSE IF stage = "dialog"
    THEN {"more_actions_not_found", "more_actions_click_error",
          "report_option_not_found", "report_option_click_error",
          "report_dialog_not_visible", "unexpected_error"}
    ELSE IF stage = "reason"
    THEN {"reason_option_not_found", "reason_option_click_error",
          "dropdown_click_error", "sub_option_click_error", "reason_unexpected_error"}
    ELSE IF stage = "submit"
    THEN {"submit_button_not_found", "submit_unexpected_error"}
    ELSE {}

FallibleStages == {"navigate", "dialog", "reason", "submit"}

\* C24: every False return of navigate_to_video, open_report_dialog,
\* select_report_reason or submit_report is preceded, within the stage, by
\* a capture whose tag names that stage and the reason; no stage returns
\* False without a capture, and no tag serves two stages.
C24_FalseReturnCaptured ==
    /\ \A st \in FallibleStages : StageRet(st) = "False" =>
          (\E i \in 1..Len(captures) : captures[i].tag \in StageTags(st))
    /\ \A st, other \in FallibleStages :
          st /= other => StageTags(st) \cap StageTags(other) = {}

\* the calls that act on an element
Interactions == {i \in EventIdx : events[i].op \in {"hover", "click", "clear", "send_keys"}}

\* C25: an element that matches the query but is not visible or not enabled
\* is treated as not found: the flow never hovers, clicks or types on it.
C25_HiddenIsNotFound ==
    \A i \in Interactions :
        events[i].tag /= "dismiss" => events[i].el \notin {"hidden", "disabled"}

(* ============================ inside the stages ======================== *)
TaggedCalls(tag) == {i \in EventIdx : events[i].tag = tag}
FailedAt(tag) ==
    \E i \in TaggedCalls(tag) : events[i].op \in {"hover", "click"} /\ ~events[i].ok
SeenVisible(tag) ==
    \E i \in Calls("wait_visible") :
        events[i].tag = tag /\ events[i].ok /\ events[i].el \in {"ok", "visible"}
DialogRan == StageRet("dialog") /= "notrun"

\* C26: in open_report_dialog the Report item is clicked only after the
\* click on more-actions succeeded, and the dialog marker is waited for only
\* after the click on the Report item succeeded; the stage returns True only
\* after the marker was seen visible; when one of the three fails the stage
\* returns False without performing the later ones.
C26_DialogOrder ==
    /\ \A i \in TaggedCalls("report_item") :
          \E j \in Calls("click") : j < i /\ events[j].tag = "more_actions" /\ events[j].ok
    /\ \A i \in TaggedCalls("report_dialog") :
          \E j \in Calls("click") : j < i /\ events[j].tag = "report_item" /\ events[j].ok
    /\ StageRet("dialog") = "True" => SeenVisible("report_dialog")
    /\ (DialogRan /\ FailedAt("more_actions")) =>
          /\ StageRet("dialog") = "False"
          /\ TaggedCalls("report_item") = {} /\ TaggedCalls("report_dialog") = {}
    /\ (DialogRan /\ FailedAt("report_item")) =>
          /\ StageRet("dialog") = "False"
          /\ TaggedCalls("report_dialog") = {}
    /\ (DialogRan /\ TaggedCalls("report_dialog") /= {} /\ ~SeenVisible("report_dialog")) =>
          StageRet("dialog") = "False"

\* C26 witness: the click on the Report item failed after a good click on
\* more-actions, and the stage returned False
C26_Witness ==
    /\ ClickedOk("more_actions")
    /\ FailedAt("report_item")
    /\ StageRet("dialog") = "False"

\* the sub-reason step failed: dropdown or option not found, or a click on
\* one of them failed
SubReasonFailed ==
    \E i \in SubReasonCalls : ~events[i].ok

\* C27: when the sub-reason step fails, select_report_reason returns False
\* without clicking the continue button, submit_report is never called and
\* the run returns failure.
C27_SubReasonFailureTerminal ==
    SubReasonFailed =>
        /\ StageRet("reason") = "False"
        /\ TaggedCalls("continue") = {}
        /\ StageRet("submit") = "notrun"
        /\ TaggedCalls("submit") = {} /\ TaggedCalls("textarea") = {}
        /\ ~success
        /\ pc = "returned" => ~result.success

\* C27 witness: the second entry of the dropdown was not found and the run
\* returned failure
C27_Witness ==
    /\ \E i \in Calls("find") : events[i].tag = "sub_option" /\ ~events[i].ok
    /\ pc = "returned"
    /\ ~result.success

SubmitRan == StageRet("submit") /= "notrun"
TextareaCalls == {i \in EventIdx : events[i].el /= "" /\ events[i].op \in {"clear", "send_keys"}}
                 \cup TaggedCalls("textarea")

\* the textarea was located, cleared and typed into with `text`, in that
\* order, and before any click on the submit button
TypedInOrder(text) ==
    \E i \in Calls("find") : \E j \in Calls("clear") : \E k \in Calls("send_keys") :
        /\ events[i].tag = "textarea" /\ events[i].ok
        /\ events[j].ok /\ events[k].ok /\ events[k].tag = text
        /\ i < j /\ j < k
        /\ \A c \in Calls("click") : events[c].tag = "submit" => k < c

StageOf(tag) ==
    IF tag \in {"more_actions", "report_item", "report_dialog"} THEN "dialog"
    ELSE IF tag \in {"reason", "dropdown", "sub_option", "continue"} THEN "reason"
    ELSE "submit"

\* hover-and-click attempts on a control of the flow that met an overlay or
\* a stale reference (the dismiss buttons of popups are best effort and not
\* among them)
TransientFailures ==
    {i \in EventIdx :
        /\ events[i].op \in {"hover", "click"}
        /\ events[i].tag \in RequiredElements
        /\ ~events[i].ok
        /\ events[i].el \in {"intercepted", "stale"}}

\* the later attempts to click the control of call i
Recoveries(i) ==
    {j \in EventIdx : j > i /\ events[j].tag = events[i].tag
                       /\ events[j].op \in {"click", "execute_script"}}

\* C29: after a click failed with a transient interaction error, at most
\* one recovery attempt is made for it; if none resolves it the run ends
\* failed with no further stage, and never reports success.
C29_TransientFailureTerminal ==
    \A i \in TransientFailures :
        /\ Cardinality(Recoveries(i)) <= 1
        /\ (\A j \in Recoveries(i) : ~events[j].ok) =>
              /\ \A j \in EventIdx : j > i => events[j].op \in {"save_screenshot", "quit"}
              /\ StageRet(StageOf(events[i].tag)) = "False"
              /\ stages[Len(stages)].name = StageOf(events[i].tag)
              /\ ~success
              /\ pc = "returned" => ~result.success

\* C29 witness: the click on the submit button was intercepted and the run
\* returned failure
C29_Witness ==
    /\ \E i \in TransientFailures : events[i].tag = "submit" /\ events[i].el = "intercepted"
    /\ pc = "returned"
    /\ ~result.success

(* ============================ popup dismissal ========================== *)
DismissCalls == TaggedCalls("dismiss")
DismissalFailed == \E i \in DismissCalls : ~events[i].ok

\* C30: the popup dismissal at the start of open_report_dialog never makes
\* the stage fail: whether the lookup, a visibility check or a click raises,
\* the stage goes on to the more-actions control as if no popup had been
\* there, its result depends on the three steps of the stage alone, and no
\* failure capture is taken for the dismissal.
C30_DismissalNeverFails ==
    (DialogRan /\ DismissCalls /= {}) =>
        /\ \E i \in Calls("wait_visible") :
              /\ events[i].tag = "more_actions"
              /\ \A j \in DismissCalls : j < i
        /\ StageRet("dialog") \in {"True", "False"}
        /\ StageRet("dialog") = "True" <=>
              (ClickedOk("more_actions") /\ ClickedOk("report_item")
               /\ SeenVisible("report_dialog"))
        /\ \A i \in DismissCalls :
              i < Len(events) => events[i + 1].op /= "save_screenshot"

\* C30 witness: the click on a dismiss button raised and the stage
\* returned True all the same
C30_Witness ==
    /\ \E i \in DismissCalls : events[i].op = "click" /\ ~events[i].ok
    /\ StageRet("dialog") = "True"

(* ======================== screenshot sequence numbers ================== *)
\* the capture attempts made while a driver existed, and those that saved
Attempts == {i \in 1..Len(captures) : captures[i].outcome /= "noop"}
Saved == {i \in 1..Len(captures) : captures[i].outcome = "saved"}
\* the sequence number the i-th call of take_screenshot must have used
SeqOf(i) == Cardinality({j \in Attempts : j <= i})
\* the k-th saved capture
SavedAt(k) == CHOOSE i \in Saved : Cardinality({j \in Saved : j <= i}) = k

\* C31: within one run the sequence numbers of the screenshot names start at
\* 1 and grow by one with every capture attempt made while a driver exists
\* (saved or not), so no two files of the run share a number, and the
\* evidence path returned carries the largest number among the saved files.
C31_SequenceNumbers ==
    /\ screenshots_taken = Cardinality(Attempts)
    /\ Len(files) = Cardinality(Saved)
    /\ \A k \in 1..Len(files) :
          /\ files[k].seq = SeqOf(SavedAt(k))
          /\ files[k].tag = captures[SavedAt(k)].tag
          /\ files[k].seq >= 1
    /\ \A k, l \in 1..Len(files) : k < l => files[k].seq < files[l].seq
    /\ (pc = "returned" /\ entry = "module") =>
          /\ files = <<>> => result.evidence = None
          /\ files /= <<>> =>
                /\ result.evidence = files[Len(files)]
                /\ \A k \in 1..Len(files) : files[k].seq <= result.evidence.seq

\* C31 witness: the first capture of the run failed to save, a later one
\* was saved under number 2, and that file is the evidence returned
C31_Witness ==
    /\ pc = "returned" /\ entry = "module"
    /\ Len(captures) >= 2
    /\ captures[1].outcome = "failed"
    /\ files /= <<>> /\ files[1].seq = 2
    /\ result.evidence.seq = 2

(* ============================ human_like_scroll ======================== *)
ScrollDone == spc = "done" /\ sarg.driver = "set" /\ sarg.direction \in {"down", "up"}
ScrollsBy == {i \in 1..Len(scrolls) : scrolls[i].op = "scrollBy" /\ scrolls[i].ok}

\* C32: human_like_scroll scrolls by the given distance whenever one is
\* given (0 included), otherwise by 200..500 for 'down' and 100..300 for
\* 'up'; 'down' scrolls by a positive and 'up' by a negative amount, and a
\* delay follows the scroll.
C32_ScrollContract ==
    (ScrollDone /\ \A i \in 1..Len(scrolls) : scrolls[i].ok) =>
        /\ Cardinality(ScrollsBy) = 1
        /\ \A i \in ScrollsBy :
              /\ sarg.distance.given => Abs(scrolls[i].amount) = Abs(sarg.distance.value)
              /\ ~sarg.distance.given => Abs(scrolls[i].amount) \in RandomRange(sarg.direction)
              /\ sarg.direction = "down" => scrolls[i].amount > 0
              /\ sarg.direction = "up" => scrolls[i].amount < 0
              /\ i < Len(scrolls) /\ scrolls[i + 1].op = "delay"

(* ============================== termination ============================ *)
\* report_video was called and has not yet left
Invoked == pc \notin {"idle", "captured", "returned", "raised"}
StageRuns(name) == Cardinality({i \in 1..Len(stages) : stages[i].name = name})
StageNames == {"validate", "setup", "navigate", "dialog", "reason", "submit"}

\* the run leaves report_video one way or the other
Leaves == Invoked ~> (pc \in {"returned", "raised"})

\* C33: when every browser call, wait and delay returns, every invocation
\* of report_video eventually reaches a terminal outcome (Succeeded or
\* Failed) with the session closed, and no stage is executed twice.
C33_TerminatesClosed ==
    /\ Invoked ~> (pc = "returned" /\ browser /= "running")
    /\ [](\A name \in StageNames : StageRuns(name) <= 1)

(* ========================= evidence across runs ======================== *)
ReturnedPair == {r \in Runs : invocations[r].pc = "returned"
                              /\ invocations[r].result.kind = "pair"}

\* the evidence invocation r returned is its own: the last file its
\* reporter saved, and None when it saved none
OwnEvidence(r) ==
    IF invocations[r].saved = <<>>
    THEN invocations[r].result.evidence = None
    ELSE /\ invocations[r].result.evidence
              = invocations[r].saved[Len(invocations[r].saved)]
         /\ invocations[r].by = r

\* C34: when invocations of the module-level report_video overlap in one
\* process, each returns an evidence path captured by its own session, or
\* None if its own run captured none.
C34_OwnEvidenceWhenOverlapping == \A r \in ReturnedPair : OwnEvidence(r)

\* C35: for invocations that do not overlap, the evidence returned is never
\* a screenshot of an earlier invocation; a run that captures nothing
\* returns None even if earlier runs captured screenshots.
C35_NoLeakAcrossRuns ==
    \A r \in ReturnedPair : ~invocations[r].overlapped => OwnEvidence(r)

\* C35 witness: the first invocation returned a screenshot; the second ran
\* after it, saved nothing and returned None
C35_Witness ==
    /\ 1 \in ReturnedPair /\ 2 \in ReturnedPair
    /\ ~invocations[2].overlapped
    /\ invocations[1].result.evidence /= None
    /\ invocations[2].saved = <<>>
    /\ invocations[2].result.evidence = None

(* ========================= notification and record ===================== *)
PipelineRuns == FxCalls("report_video")
Notifications == FxCalls("send_email_notification")
Inserts == FxCalls("db_add") \cup FxCalls("db_commit")

\* what the route does once the pipeline has returned its pair
NotifiedThenPersisted ==
    /\ \A i \in Notifications :
          /\ effects[i].success = piped.success
          /\ effects[i].screenshot_path = piped.evidence
          /\ \A j \in Inserts : i < j
          /\ \A j \in PipelineRuns : j < i
    /\ Cardinality(Notifications) <= 1
    /\ Inserts /= {} => piped.success
    /\ records /= <<>> => piped.success
    /\ (\E j \in FxCalls("db_commit") : ~effects[j].ok) =>
          (records = <<>> /\ FxCalls("db_rollback") /= {})

\* C36: in submit_report the notification is invoked exactly once per
\* pipeline run, with the run's success flag and evidence path, on success
\* and on failure and before any persistence; a record is inserted only
\* when the pipeline returned success, and a failed insert is rolled back.
C36_NotifiedOncePerRun ==
    /\ wpc = "done" => Cardinality(Notifications) = Cardinality(PipelineRuns)
    /\ NotifiedThenPersisted
====
